---- MODULE Spec2Model ----
(***************************************************************************)
(* Streaming chat relay of AI Global Networks.                             *)
(*                                                                         *)
(*   server.js          POST /api/chat: credential check, request          *)
(*                      validation, upstream dispatch, SSE relay loop      *)
(*   public/chatbot.js  ChatApp.streamResponse: the browser's read loop    *)
(*                      that turns response chunks into content deltas     *)
(*                                                                         *)
(* Text is a sequence of symbols.  The literal 'data: ' is the two         *)
(* symbols <<"data", ": ">>, a line break is "\n", the sentinel [DONE] is  *)
(* <<"[DONE", "]">>, and the JSON text                                     *)
(* {"choices":[{"delta":{"content":"a"}}]} is <<"{", "a", "}">>: a chunk   *)
(* boundary can fall between any two symbols, so inside the prefix, the    *)
(* sentinel or the JSON.  Temperatures are carried in tenths (7 is 0.7).   *)
(***************************************************************************)
EXTENDS Integers, Sequences, FiniteSets, TLC

\* ------------------------------------------------------------------ bounds
MaxFrames == 2
MaxMsgs == 2
MaxChunks == 3
MaxPipeReads == 2
MaxEvents == 3
MaxReqs == 2
MaxPairReads == 2
MaxConns == 2
MaxStart == 2
MaxSeconds == 1

\* --------------------------------------------------------------- constants
CONFIG_MAX_TOKENS == 2048

\* -------------------------------------------------------------------- text
NL == "\n"
DATA_PREFIX == <<"data", ": ">>
DONE == <<"[DONE", "]">>
ContentSyms == {"a", "b"}

\* String.prototype.startsWith
startsWith(s, p) ==
    /\ Len(s) >= Len(p)
    /\ SubSeq(s, 1, Len(p)) = p

\* String.prototype.slice(n): the text after the first n symbols
slice(s, n) == SubSeq(s, n + 1, Len(s))

\* String.prototype.split('\n'): the parts between line breaks, the part
\* after the last line break included (empty when the text ends with one)
RECURSIVE splitFrom(_, _, _)
splitFrom(s, i, cur) ==
    IF i > Len(s) THEN <<cur>>
    ELSE IF s[i] = NL THEN <<cur>> \o splitFrom(s, i + 1, <<>>)
    ELSE splitFrom(s, i + 1, Append(cur, s[i]))

split(s) == splitFrom(s, 1, <<>>)

\* concatenation of a sequence of texts
RECURSIVE Flatten(_)
Flatten(ss) == IF ss = <<>> THEN <<>> ELSE Head(ss) \o Flatten(Tail(ss))

\* a whitespace character (a blank, a tab, a carriage return)
WS == " "

\* String.prototype.trim
RECURSIVE trim(_)
trim(s) ==
    IF s = <<>> THEN s
    ELSE IF Head(s) = WS THEN trim(Tail(s))
    ELSE IF s[Len(s)] = WS THEN trim(SubSeq(s, 1, Len(s) - 1))
    ELSE s

\* JSON.parse followed by parsed.choices[0]?.delta?.content || '' : the
\* content text, or a throw ("throw") when the text is not a complete JSON
\* object; JSON.parse skips whitespace around the value
parseContent(data) ==
    LET json == trim(data) IN
    IF /\ Len(json) >= 2
       /\ json[1] = "{"
       /\ json[Len(json)] = "}"
       /\ \A i \in 2..(Len(json) - 1) : json[i] \in ContentSyms
    THEN [outcome |-> "ok", content |-> SubSeq(json, 2, Len(json) - 1)]
    ELSE [outcome |-> "throw", content |-> <<>>]

\* ------------------------------------------------------- upstream streams
DeltaLine(c) == DATA_PREFIX \o <<"{">> \o c \o <<"}">>
DoneLine == DATA_PREFIX \o DONE
\* one SSE event: the data line and the blank line that ends it
Event(line) == line \o <<NL, NL>>

EventLines == {DeltaLine(<<"a">>), DeltaLine(<<"b">>), DoneLine}

RECURSIVE LineSeqs(_)
LineSeqs(n) ==
    IF n = 0 THEN {<<>>}
    ELSE LineSeqs(n - 1) \cup
         {Append(ls, l) : ls \in {x \in LineSeqs(n - 1) : Len(x) = n - 1}, l \in EventLines}

\* the text of a well-formed stream with the given data lines
StreamOf(ls) == Flatten([i \in 1..Len(ls) |-> Event(ls[i])])

Streams(n) == {StreamOf(ls) : ls \in LineSeqs(n)}

\* lines a response body can also carry: a line without the data prefix,
\* a data line whose payload is not complete JSON, a delta without
\* content, a data line after leading whitespace
CommentLine == <<":", "ping">>
UnparsableLine == DATA_PREFIX \o <<"{", "a">>
NoContentLine == DATA_PREFIX \o <<"{", "}">>
IndentedLine == <<WS>> \o DeltaLine(<<"b">>)

DecodeLines ==
    {DeltaLine(<<"a">>), DoneLine, CommentLine, UnparsableLine, NoContentLine,
     IndentedLine}

RECURSIVE DecodeLineSeqs(_)
DecodeLineSeqs(n) ==
    IF n = 0 THEN {<<>>}
    ELSE DecodeLineSeqs(n - 1) \cup
         {Append(ls, l) : ls \in {x \in DecodeLineSeqs(n - 1) : Len(x) = n - 1},
                          l \in DecodeLines}

DecodeStreams(n) == {StreamOf(ls) : ls \in DecodeLineSeqs(n)}

\* the data lines of a text, in order
DataLines(s) == SelectSeq(split(s), LAMBDA l : startsWith(l, DATA_PREFIX))

\* ---------------------------------------------------------- request bodies
\* An optional field is <<>> when absent and <<v>> when present.
\* truthiness of an optional number: undefined and 0 are falsy
Truthy(opt) == opt # <<>> /\ opt[1] # 0

\* an element of `messages`: null, or an object whose role and content are
\* texts ("" when the property is missing or empty)
NullMsg == [kind |-> "null", role |-> "", content |-> ""]
Obj(r, c) == [kind |-> "object", role |-> r, content |-> c]

MsgValues ==
    {NullMsg, Obj("user", "hi"), Obj("", "hi"), Obj("user", ""),
     Obj("system", "hi"), Obj("assistant", "ok")}

RECURSIVE MsgSeqs(_)
MsgSeqs(n) ==
    IF n = 0 THEN {<<>>}
    ELSE MsgSeqs(n - 1) \cup
         {Append(ms, m) : ms \in {x \in MsgSeqs(n - 1) : Len(x) = n - 1}, m \in MsgValues}

\* `messages` of a body: missing, present but not an array, or an array
MessagesValues ==
    {[kind |-> "absent", items |-> <<>>], [kind |-> "notArray", items |-> <<>>]}
    \cup {[kind |-> "array", items |-> ms] : ms \in MsgSeqs(MaxMsgs)}

TemperatureValues == {<<>>, <<-1>>, <<0>>, <<7>>, <<20>>, <<21>>}
MaxTokensValues == {<<>>, <<-1>>, <<0>>, <<1>>, <<4096>>, <<4097>>}
StreamValues == {<<>>, <<TRUE>>, <<FALSE>>}

Bodies ==
    [messages : MessagesValues, temperature : TemperatureValues,
     max_tokens : MaxTokensValues, stream : StreamValues]

\* -------------------------------------------------------------- validators
ERR_MESSAGES == "Messages array is required and cannot be empty"
ERR_MESSAGE == "Each message must have role and content"
ERR_TEMPERATURE == "Temperature must be between 0 and 2"
ERR_MAX_TOKENS == "Max tokens must be between 1 and 4096"

Returns(v, e) == [outcome |-> "return", valid |-> v, error |-> e]
Throws == [outcome |-> "throw", valid |-> FALSE, error |-> "TypeError"]

\* messages.some(msg => !msg.role || !msg.content), elements visited in
\* order up to the first hit; reading a property of null throws
RECURSIVE some(_, _)
some(items, i) ==
    IF i > Len(items) THEN "false"
    ELSE IF items[i].kind = "null" THEN "throw"
    ELSE IF items[i].role = "" \/ items[i].content = "" THEN "true"
    ELSE some(items, i + 1)

\* a temperature test that excludes the upper limit
temperatureRejected_exclusive(temperature) ==
    Truthy(temperature) /\ (temperature[1] < 0 \/ temperature[1] >= 20)

\* the temperature test of validateChatRequest
temperatureRejected(temperature) ==
    Truthy(temperature) /\ (temperature[1] < 0 \/ temperature[1] > 20)

\* the max_tokens test of validateChatRequest
maxTokensRejected(max_tokens) ==
    Truthy(max_tokens) /\ (max_tokens[1] < 1 \/ max_tokens[1] > 4096)

validateChatRequest(body) ==
    IF body.messages.kind # "array" \/ Len(body.messages.items) = 0
    THEN Returns(FALSE, ERR_MESSAGES)
    ELSE IF some(body.messages.items, 1) = "throw" THEN Throws
    ELSE IF some(body.messages.items, 1) = "true" THEN Returns(FALSE, ERR_MESSAGE)
    ELSE IF temperatureRejected(body.temperature) THEN Returns(FALSE, ERR_TEMPERATURE)
    ELSE IF maxTokensRejected(body.max_tokens) THEN Returns(FALSE, ERR_MAX_TOKENS)
    ELSE Returns(TRUE, "")

\* ------------------------------------------------------------- GroqClient
systemMessage == Obj("system", "COMPANY_CONTEXT")

\* destructuring default: used only when the option is undefined
OrDefault(opt, d) == IF opt = <<>> THEN d ELSE opt[1]

\* a request body with the system message after the caller's messages
requestBody_systemLast(messages, temperature, max_tokens, stream) ==
    [messages |-> messages \o <<systemMessage>>,
     temperature |-> OrDefault(temperature, 7),
     max_tokens |-> OrDefault(max_tokens, CONFIG_MAX_TOKENS),
     stream |-> stream]

\* the requestBody GroqClient.sendRequest posts upstream
requestBody(messages, temperature, max_tokens, stream) ==
    [messages |-> <<systemMessage>> \o messages,
     temperature |-> OrDefault(temperature, 7),
     max_tokens |-> OrDefault(max_tokens, CONFIG_MAX_TOKENS),
     stream |-> stream]

\* ------------------------------------------------------------------ state
VARIABLES
    GROQ_API_KEY,   \* CONFIG.GROQ_API_KEY is set
    body,           \* req.body of the POST /api/chat request
    upstream,       \* the text the upstream response body delivers
    pc,             \* where the handler is: start, fetching, reading, returned
    validation,     \* what validateChatRequest gave: <<>> before it ran
    dispatched,     \* the request bodies fetch() posted upstream, in order
    upPos,          \* how much of `upstream` reader.read() has delivered
    upReads,        \* chunks delivered so far
    lastRead,       \* the latest reader.read(): none, chunk, done, error
    res,            \* the response: status, headersSent, ended, json, written
    response,       \* what fetch() gave the handler: <<>> before it settled
    health,         \* the answer to a GET /api/health: <<>> before it
    cStream,        \* chatbot.js: the text the response body delivers
    cPos,           \* how much of cStream reader.read() has delivered
    cReads,         \* chunks delivered so far
    cPc,            \* where streamResponse is: idle, reading, done
    emitted,        \* the parts the for loop has visited, in order, each
                    \* with whether a line break followed it in its chunk
    deltas,         \* the contents appended to fullResponse, in order
    fullResponse,   \* streamResponse's fullResponse
    currentMessages,\* ChatApp.currentMessages
    isTyping,       \* ChatApp.isTyping
    currentChatId,  \* ChatApp.currentChatId: 0 for null
    chats,          \* ChatApp.chats: entries [id, messages, live], where live
                    \* says that messages is the array currentMessages refers to
    stored,         \* localStorage 'chats': the entries last written
    nextId,         \* the id Utils.generateId gives next
    cChatId,        \* the conversation the pending sendMessage was called in
    events,         \* how many user events the page has handled
    closed,         \* the caller's connection of the chat request has closed
    reqs,           \* concurrent streaming requests, each with its own
                    \* upstream, reader position and response
    proc,           \* the server process: listening, open connections,
                    \* shutdown timers, exit code
    arrivals,       \* the times at which POST /api/chat requests arrived
    now             \* the time, in timer steps

serverVars ==
    <<GROQ_API_KEY, body, upstream, pc, validation, dispatched, upPos,
      upReads, lastRead, res, response, health, closed, reqs, proc, arrivals,
      now>>

clientVars ==
    <<cStream, cPos, cReads, cPc, emitted, deltas, fullResponse,
      currentMessages, isTyping, currentChatId, chats, stored, nextId, cChatId,
      events>>

vars == <<serverVars, clientVars>>

\* the process after app.listen: listening, no connection, no timer
proc0 == [listening |-> TRUE, conns |-> 0, timers |-> {}, closing |-> FALSE, exit |-> <<>>]

\* ------------------------------------------------------------- the response
res0 ==
    [status |-> 0, headersSent |-> FALSE, ended |-> FALSE, json |-> <<>>,
     written |-> <<>>]

\* res.status(code).json(obj)
sendJson(r, code, obj) ==
    [r EXCEPT !.status = code, !.headersSent = TRUE, !.ended = TRUE,
              !.json = <<obj>>]

\* res.write(text): the first write sends the headers with status 200
write(r, text) ==
    [r EXCEPT !.status = IF r.headersSent THEN r.status ELSE 200,
              !.headersSent = TRUE,
              !.written = Append(r.written, text)]

\* res.end()
end(r) == [r EXCEPT !.ended = TRUE]

RECURSIVE writeAll(_, _)
writeAll(r, texts) ==
    IF texts = <<>> THEN r ELSE writeAll(write(r, Head(texts)), Tail(texts))

\* --------------------------------------------------------- GET /api/health
\* a health check that always reports ok
healthReply_alwaysOk(isHealthy, configured) ==
    [code |-> 200, status |-> "ok", apiConfigured |-> configured]

\* lines 201-206: the status code and the body (timestamp and environment
\* left out)
healthReply(isHealthy, configured) ==
    [code |-> IF isHealthy THEN 200 ELSE 503,
     status |-> IF isHealthy THEN "ok" ELSE "degraded",
     apiConfigured |-> configured]

\* ------------------------------------------------- POST /api/chat, entry
\* a credential check that always passes
validateApiKey_always == TRUE

validateApiKey == GROQ_API_KEY

\* a dispatch that posts the request a second time
sendRequest_twice(calls, rb) == Append(Append(calls, rb), rb)

\* lines 151-161: GroqClient.sendRequest posts rb with one fetch()
sendRequest(calls, rb) == Append(calls, rb)

UNEXPECTED == "An unexpected error occurred. Please try again."

\* an outer catch that only logs
outerCatch_silent(r) == r

\* lines 292-300: the handler's outer catch
outerCatch(r) ==
    IF ~r.headersSent THEN sendJson(r, 500, [error |-> UNEXPECTED]) ELSE r

\* a rejected body answered as a server error
badRequest_as500(v) == [code |-> 500, json |-> [error |-> v.error]]

\* the reply to a rejected body
badRequest(v) == [code |-> 400, json |-> [error |-> v.error]]

\* Lines 213-235: credential check, validation, dispatch.  A throw of
\* validateChatRequest leaves the async handler before its try block: the
\* request is then answered by the global error handler (500) or, where
\* the framework does not route a rejected handler there, not at all.
ChatEntry ==
    /\ pc = "start"
    /\ IF ~validateApiKey
       THEN /\ res' = sendJson(res, 500, [error |-> "Server configuration error."])
            /\ pc' = "returned"
            /\ UNCHANGED <<validation, dispatched>>
       ELSE LET v == validateChatRequest(body) IN
            /\ validation' = <<v>>
            /\ IF v.outcome = "throw"
               THEN /\ pc' = "returned"
                    /\ \/ res' = res
                       \/ res' = sendJson(res, 500, [error |-> "Internal Server Error"])
                    /\ UNCHANGED dispatched
               ELSE IF ~v.valid
               THEN /\ res' = sendJson(res, badRequest(v).code, badRequest(v).json)
                    /\ pc' = "returned"
                    /\ UNCHANGED dispatched
               ELSE /\ dispatched' =
                         sendRequest(dispatched,
                                requestBody(body.messages.items, body.temperature,
                                            body.max_tokens,
                                            OrDefault(body.stream, FALSE)))
                    /\ pc' = "fetching"
                    /\ UNCHANGED res
    /\ UNCHANGED <<clientVars, health, closed, reqs, proc, arrivals, now>>
    /\ UNCHANGED <<response, GROQ_API_KEY, body, upstream, upPos, upReads, lastRead>>

\* lines 198-207: a health request, at any moment of the chat request
Health ==
    /\ health = <<>>
    /\ health' = <<healthReply(validateApiKey, GROQ_API_KEY)>>
    /\ UNCHANGED <<clientVars, closed, reqs, proc, arrivals, now>>
    /\ UNCHANGED <<GROQ_API_KEY, body, upstream, pc, validation, dispatched,
                   upPos, upReads, lastRead, res, response>>

\* ----------------------------------------------- the upstream's answer
\* A settled fetch(): it rejected, or it resolved with a response that has
\* a status and a body (errBody for a non-success status; choices, model
\* and usage for a completion).
FetchResult(kind, status, errBody, choices, model, usage) ==
    [kind |-> kind, status |-> status, errBody |-> errBody,
     choices |-> choices, model |-> model, usage |-> usage]

Rejected_fetch == FetchResult("rejected", 0, "", "", "", "")

\* fetch() rejects: sendRequest rethrows, the outer catch answers 500
FetchRejects ==
    /\ pc = "fetching"
    /\ response' = <<Rejected_fetch>>
    /\ res' = outerCatch(res)
    /\ pc' = "returned"
    /\ UNCHANGED <<clientVars, health, closed, reqs, proc, arrivals, now>>
    /\ UNCHANGED <<GROQ_API_KEY, body, upstream, validation, dispatched, upPos,
                   upReads, lastRead>>

\* error bodies of the upstream: with error.message, without it, not JSON
ErrorBodies == {"message", "nomessage", "unparsable"}
ErrorStatuses == {401, 429}

\* lines 238-245: a non-success status
upstreamError(r, status, errBody) ==
    IF errBody = "unparsable"
    THEN outerCatch(r)
    ELSE sendJson(r, status,
             [error |-> IF errBody = "message" THEN "upstream message"
                        ELSE "AI service error"])

FetchError ==
    /\ pc = "fetching"
    /\ \E status \in ErrorStatuses, errBody \in ErrorBodies :
           /\ response' = <<FetchResult("error", status, errBody, "", "", "")>>
           /\ res' = upstreamError(res, status, errBody)
    /\ pc' = "returned"
    /\ UNCHANGED <<clientVars, health, closed, reqs, proc, arrivals, now>>
    /\ UNCHANGED <<GROQ_API_KEY, body, upstream, validation, dispatched, upPos,
                   upReads, lastRead>>

\* completion bodies of the upstream for a non-streaming request
CompletionBodies == {"nochoices", "empty", "nomessage", "nocontent", "content"}

CompletionModels == {"llama", "mixtral"}
CompletionUsages == {"usage"}

\* lines 284-290: data.choices[0]?.message?.content || '' ; reading [0]
\* of a missing choices throws into the outer catch
completionReply(r, choices, model, usage) ==
    IF choices = "nochoices"
    THEN outerCatch(r)
    ELSE sendJson(r, 200,
             [message |-> IF choices = "content" THEN "answer" ELSE "",
              model |-> model, usage |-> usage])

FetchCompletion ==
    /\ pc = "fetching"
    /\ ~OrDefault(body.stream, FALSE)
    /\ \E choices \in CompletionBodies, model \in CompletionModels,
          usage \in CompletionUsages :
           /\ response' = <<FetchResult("completion", 200, "", choices, model, usage)>>
           /\ res' = completionReply(res, choices, model, usage)
    /\ pc' = "returned"
    /\ UNCHANGED <<clientVars, health, closed, reqs, proc, arrivals, now>>
    /\ UNCHANGED <<GROQ_API_KEY, body, upstream, validation, dispatched, upPos,
                   upReads, lastRead>>

\* lines 248-255: a successful streaming response; the headers are set,
\* nothing is sent yet
FetchStream ==
    /\ pc = "fetching"
    /\ OrDefault(body.stream, FALSE)
    /\ response' = <<FetchResult("stream", 200, "", "", "", "")>>
    /\ pc' = "reading"
    /\ UNCHANGED <<clientVars, health, closed, reqs, proc, arrivals, now>>
    /\ UNCHANGED <<GROQ_API_KEY, body, upstream, validation, dispatched, upPos,
                   upReads, lastRead, res>>

\* ---------------------------------------------------------- the relay loop
DoneFrame == DoneLine \o <<NL, NL>>

\* a relay that holds the last part of each chunk back
relayFrames_holdLast(chunk) ==
    LET lines == split(chunk)
        kept == SelectSeq(SubSeq(lines, 1, Len(lines) - 1),
                          LAMBDA line : startsWith(line, DATA_PREFIX))
    IN  [i \in 1..Len(kept) |-> kept[i] \o <<NL, NL>>]

\* a relay that writes the lines of a chunk newest first
relayFrames_newestFirst(chunk) ==
    LET lines == split(chunk)
        kept == SelectSeq(lines, LAMBDA line : startsWith(line, DATA_PREFIX))
    IN  [i \in 1..Len(kept) |-> kept[Len(kept) + 1 - i] \o <<NL, NL>>]

\* lines 266-273: what one chunk makes the relay write
relayFrames(chunk) ==
    LET lines == split(chunk)
        kept == SelectSeq(lines, LAMBDA line : startsWith(line, DATA_PREFIX))
    IN  [i \in 1..Len(kept) |-> kept[i] \o <<NL, NL>>]

\* a relay that ends the response without a terminator of its own
exhaustedFrames_noDone == <<>>

\* lines 260-264: what the relay writes when the upstream is exhausted
exhaustedFrames == <<DoneFrame>>

\* reader.read() delivers the next k symbols
ReadChunk ==
    /\ pc = "reading"
    /\ upPos < Len(upstream)
    /\ upReads < MaxChunks
    /\ \E k \in 1..(Len(upstream) - upPos) :
         /\ (upReads = MaxChunks - 1) => (k = Len(upstream) - upPos)
         /\ LET chunk == SubSeq(upstream, upPos + 1, upPos + k) IN
            /\ res' = writeAll(res, relayFrames(chunk))
            /\ upPos' = upPos + k
    /\ upReads' = upReads + 1
    /\ lastRead' = "chunk"
    /\ UNCHANGED <<clientVars, health, closed, reqs, proc, arrivals, now>>
    /\ UNCHANGED <<response, GROQ_API_KEY, body, upstream, pc, validation, dispatched>>

\* reader.read() reports done
ReadDone ==
    /\ pc = "reading"
    /\ upPos = Len(upstream)
    /\ res' = end(writeAll(res, exhaustedFrames))
    /\ lastRead' = "done"
    /\ pc' = "returned"
    /\ UNCHANGED <<clientVars, health, closed, reqs, proc, arrivals, now>>
    /\ UNCHANGED <<response, GROQ_API_KEY, body, upstream, validation, dispatched, upPos,
                   upReads>>

\* a catch block that answers without looking at headersSent
streamError_unguarded(r) == sendJson(r, 500, [error |-> "Streaming failed"])

\* lines 275-280: what the relay does when reader.read() rejects
streamError(r) ==
    IF ~r.headersSent THEN sendJson(r, 500, [error |-> "Streaming failed"]) ELSE r

ReadFails ==
    /\ pc = "reading"
    /\ res' = streamError(res)
    /\ lastRead' = "error"
    /\ pc' = "returned"
    /\ UNCHANGED <<clientVars, health, closed, reqs, proc, arrivals, now>>
    /\ UNCHANGED <<response, GROQ_API_KEY, body, upstream, validation, dispatched, upPos,
                   upReads>>

\* The caller's connection closes while the request is being served.  The
\* handler registers no listener for it (lines 213-301): nothing of the
\* handler's state changes, and a later res.write() is dropped without a
\* throw.
ClientCloses ==
    /\ pc \in {"fetching", "reading"}
    /\ ~closed
    /\ closed' = TRUE
    /\ UNCHANGED <<clientVars, health, reqs, proc, arrivals, now>>
    /\ UNCHANGED <<response, GROQ_API_KEY, body, upstream, pc, validation, dispatched,
                   upPos, upReads, lastRead, res>>

\* ------------------------------------------------ requests one after one
\* CONFIG.RATE_LIMIT_WINDOW, in seconds (60000 ms), and CONFIG.RATE_LIMIT_MAX
RATE_LIMIT_WINDOW == 60
RATE_LIMIT_MAX == 30

\* line 213: the next POST /api/chat arrives and its handler starts with a
\* response of its own; nothing in front of the handler counts requests
Arrive ==
    /\ pc \in {"idle", "returned"}
    /\ Len(arrivals) <= RATE_LIMIT_MAX
    /\ arrivals' = Append(arrivals, now)
    /\ pc' = "start"
    /\ validation' = <<>>
    /\ res' = res0
    /\ response' = <<>>
    /\ upPos' = 0
    /\ upReads' = 0
    /\ lastRead' = "none"
    /\ UNCHANGED <<clientVars, health, closed, reqs, proc, now>>
    /\ UNCHANGED <<GROQ_API_KEY, body, upstream, dispatched>>

\* a second passes between two requests
SecondPasses ==
    /\ pc \in {"idle", "returned"}
    /\ now < MaxSeconds
    /\ now' = now + 1
    /\ UNCHANGED <<clientVars, health, closed, reqs, proc, arrivals>>
    /\ UNCHANGED <<GROQ_API_KEY, body, upstream, pc, validation, dispatched, upPos,
                   upReads, lastRead, res, response>>

\* ------------------------------------------------- the process: shutdown
\* the grace period of gracefulShutdown's timer, in seconds (10000 ms)
GRACE_SECONDS == 10

\* a shutdown that sets no timer
gracefulShutdown_noTimer(p, t) ==
    [p EXCEPT !.listening = FALSE,
              !.closing = TRUE,
              !.exit = IF p.conns = 0 THEN <<0>> ELSE @]

\* lines 373-386: server.close() stops the listening and calls back, with
\* exit code 0, once no connection is open (at once when none is);
\* setTimeout sets the forced exit
gracefulShutdown(p, t) ==
    [p EXCEPT !.listening = FALSE,
              !.closing = TRUE,
              !.timers = @ \cup {t + GRACE_SECONDS},
              !.exit = IF p.conns = 0 THEN <<0>> ELSE @]

\* what the steps of the process leave alone
procFrame ==
    <<clientVars, GROQ_API_KEY, body, upstream, pc, validation, dispatched, upPos,
      upReads, lastRead, res, response, health, closed, reqs, arrivals>>

\* a connection is accepted: only a listening server accepts
Accept ==
    /\ proc.exit = <<>>
    /\ proc.listening
    /\ proc.conns < MaxConns
    /\ proc' = [proc EXCEPT !.conns = @ + 1]
    /\ UNCHANGED <<now, procFrame>>

\* a connection ends; lines 376-379: the last one of a closing server
\* makes server.close() call back
ConnCloses ==
    /\ proc.exit = <<>>
    /\ proc.conns > 0
    /\ proc' = [proc EXCEPT !.conns = @ - 1,
                            !.exit = IF proc.closing /\ proc.conns = 1 THEN <<0>> ELSE @]
    /\ UNCHANGED <<now, procFrame>>

\* lines 388-395: SIGTERM, SIGINT or an uncaught exception, also a
\* further one while the server is closing
Shutdown(signal) ==
    /\ proc.exit = <<>>
    /\ now <= MaxStart
    /\ proc' = gracefulShutdown(proc, now)
    /\ UNCHANGED <<now, procFrame>>

\* lines 382-385: a timer whose time has come forces the exit
TimerFires ==
    /\ proc.exit = <<>>
    /\ \E t \in proc.timers : t <= now
    /\ proc' = [proc EXCEPT !.exit = <<1>>]
    /\ UNCHANGED <<now, procFrame>>

\* a second passes; a timer that is due fires before time goes on
Tick ==
    /\ proc.exit = <<>>
    /\ \A t \in proc.timers : t > now
    /\ now < MaxStart + GRACE_SECONDS
    /\ now' = now + 1
    /\ UNCHANGED <<proc, procFrame>>

\* ------------------------------------------ concurrent streaming requests
\* the upstream stream of the request with the given number: each has a
\* text of its own, every third one an upstream that sends nothing
ReqUpstream(id) ==
    IF id % 3 = 1 THEN StreamOf(<<DeltaLine(<<"a">>)>>)
    ELSE IF id % 3 = 2 THEN StreamOf(<<DeltaLine(<<"b">>)>>)
    ELSE <<>>

\* a streaming request that passed validation and was posted upstream
Req0(id) ==
    [upstream |-> ReqUpstream(id), upPos |-> 0, upReads |-> 0, chunks |-> <<>>,
     lastRead |-> "none", res |-> res0, pc |-> "fetching"]

\* a handler that keeps the response in a place all invocations share
own_shared(id) == 1

\* line 213: res, like reader and decoder (254-255), is a local of the
\* handler's invocation
own(id) == id

\* lines 248-255
ReqStream(id) ==
    /\ reqs[id].pc = "fetching"
    /\ reqs' = [reqs EXCEPT ![id].pc = "reading"]

\* fetch() rejects: lines 292-300
ReqRejects(id) ==
    /\ reqs[id].pc = "fetching"
    /\ reqs' = [reqs EXCEPT ![id].pc = "returned",
                            ![own(id)].res = outerCatch(@)]

\* lines 259-273: reader.read() delivers the next k symbols
ReqRead(id) ==
    /\ reqs[id].pc = "reading"
    /\ reqs[id].upPos < Len(reqs[id].upstream)
    /\ reqs[id].upReads < MaxPairReads
    /\ \E k \in 1..(Len(reqs[id].upstream) - reqs[id].upPos) :
         /\ (reqs[id].upReads = MaxPairReads - 1) =>
                (k = Len(reqs[id].upstream) - reqs[id].upPos)
         /\ LET chunk == SubSeq(reqs[id].upstream, reqs[id].upPos + 1,
                                reqs[id].upPos + k)
            IN  reqs' = [reqs EXCEPT ![id].upPos = @ + k,
                                     ![id].upReads = @ + 1,
                                     ![id].chunks = Append(@, chunk),
                                     ![id].lastRead = "chunk",
                                     ![own(id)].res = writeAll(@, relayFrames(chunk))]

\* lines 260-264: reader.read() reports done
ReqDone(id) ==
    /\ reqs[id].pc = "reading"
    /\ reqs[id].upPos = Len(reqs[id].upstream)
    /\ reqs' = [reqs EXCEPT ![id].lastRead = "done",
                            ![id].pc = "returned",
                            ![own(id)].res = end(writeAll(@, exhaustedFrames))]

\* lines 275-280: reader.read() rejects
ReqFails(id) ==
    /\ reqs[id].pc = "reading"
    /\ reqs' = [reqs EXCEPT ![id].lastRead = "error",
                            ![id].pc = "returned",
                            ![own(id)].res = streamError(@)]

\* what the steps of the concurrent requests leave alone
pairFrame ==
    <<clientVars, GROQ_API_KEY, body, upstream, pc, validation, dispatched, upPos,
      upReads, lastRead, res, response, health, closed, proc, arrivals, now>>

\* ------------------------------------------- chatbot.js: the conversations
MAX_CHAT_HISTORY == 100

\* a search that never finds the conversation
findIndex_none(cs, id) == 0

\* the entries of `chats` with the given id, as positions
findIndex(cs, id) ==
    IF \E i \in DOMAIN cs : cs[i].id = id
    THEN CHOOSE i \in DOMAIN cs : cs[i].id = id /\ \A j \in 1..(i - 1) : cs[j].id # id
    ELSE 0

\* a push to the array currentMessages refers to is seen through every
\* entry that holds the same array
touch(cs, msgs) ==
    [i \in DOMAIN cs |-> IF cs[i].live THEN [cs[i] EXCEPT !.messages = msgs] ELSE cs[i]]

\* this.currentMessages is given a new array: no entry holds it
detach(cs) == [i \in DOMAIN cs |-> [cs[i] EXCEPT !.live = FALSE]]

\* JSON.stringify of the entries: ids and messages as they are now
snapshot(cs) == [i \in DOMAIN cs |-> [id |-> cs[i].id, messages |-> cs[i].messages]]

\* a history that keeps the newest entries beyond the maximum as well
truncate_none(cs) == cs

\* lines 578-580
truncate(cs) ==
    IF Len(cs) > MAX_CHAT_HISTORY THEN SubSeq(cs, 1, MAX_CHAT_HISTORY) ELSE cs

\* lines 558-584: saveChat; the result is the new `chats` and the new
\* persisted value
saveChat(id, msgs, cs, st) ==
    IF id = 0 \/ Len(msgs) = 0 THEN [chats |-> cs, stored |-> st]
    ELSE LET chatData == [id |-> id, messages |-> msgs, live |-> TRUE]
             existingIndex == findIndex(cs, id)
             placed == IF existingIndex > 0 THEN [cs EXCEPT ![existingIndex] = chatData]
                       ELSE <<chatData>> \o cs
         IN  [chats |-> truncate(placed), stored |-> snapshot(truncate(placed))]

\* ------------------------------------------ chatbot.js: streamResponse
\* lines 407-421: what one line adds to fullResponse (<<>> for nothing)
lineContent(line) ==
    IF ~startsWith(line, DATA_PREFIX) THEN <<>>
    ELSE LET data == slice(line, Len(DATA_PREFIX)) IN
         IF data = DONE THEN <<>>
         ELSE IF parseContent(data).outcome = "throw" THEN <<>>
         ELSE parseContent(data).content

\* the first line of a chunk whose payload fails to parse (0 for none)
RECURSIVE firstThrow(_, _)
firstThrow(lines, i) ==
    IF i > Len(lines) THEN 0
    ELSE IF /\ startsWith(lines[i], DATA_PREFIX)
            /\ slice(lines[i], Len(DATA_PREFIX)) # DONE
            /\ parseContent(slice(lines[i], Len(DATA_PREFIX))).outcome = "throw"
    THEN i
    ELSE firstThrow(lines, i + 1)

\* a loop without the try/catch: a parse failure ends the chunk's loop
chunkDeltas_abortAtThrow(chunk) ==
    LET lines == split(chunk)
        n == IF firstThrow(lines, 1) = 0 THEN Len(lines) ELSE firstThrow(lines, 1) - 1
        contents == [i \in 1..n |-> lineContent(lines[i])]
    IN  SelectSeq(contents, LAMBDA c : c # <<>>)

\* lines 403-426: the contents one chunk appends, in order
chunkDeltas(chunk) ==
    LET lines == split(chunk)
        contents == [i \in 1..Len(lines) |-> lineContent(lines[i])]
    IN  SelectSeq(contents, LAMBDA c : c # <<>>)

\* lines 404-406: the parts of one chunk the for loop visits; the last
\* part of the split is the one no line break follows
visited(chunk) ==
    LET lines == split(chunk) IN
    [i \in 1..Len(lines) |-> [line |-> lines[i], terminated |-> i < Len(lines)]]

\* reader.read() delivers the next k symbols
ClientRead ==
    /\ cPc = "reading"
    /\ cPos < Len(cStream)
    /\ cReads < MaxChunks
    /\ \E k \in 1..(Len(cStream) - cPos) :
         /\ (cReads = MaxChunks - 1) => (k = Len(cStream) - cPos)
         /\ LET chunk == SubSeq(cStream, cPos + 1, cPos + k) IN
            /\ emitted' = emitted \o visited(chunk)
            /\ deltas' = deltas \o chunkDeltas(chunk)
            /\ fullResponse' = fullResponse \o Flatten(chunkDeltas(chunk))
            /\ cPos' = cPos + k
    /\ cReads' = cReads + 1
    /\ UNCHANGED <<cStream, cPc, currentMessages, isTyping>>
    /\ UNCHANGED <<currentChatId, chats, stored, nextId, cChatId, events>>
    /\ UNCHANGED serverVars

\* lines 401, 429-431 and 363-365: reader.read() reports done; the reply is
\* pushed and sendMessage, resumed, saves the conversation
ClientDone ==
    /\ cPc = "reading"
    /\ cPos = Len(cStream)
    /\ LET msgs == Append(currentMessages, [role |-> "assistant", content |-> fullResponse])
           saved == saveChat(currentChatId, msgs, touch(chats, msgs), stored)
       IN  /\ currentMessages' = msgs
           /\ chats' = saved.chats
           /\ stored' = saved.stored
    /\ isTyping' = FALSE
    /\ cPc' = "done"
    /\ UNCHANGED <<cStream, cPos, cReads, emitted, deltas, fullResponse>>
    /\ UNCHANGED <<currentChatId, nextId, cChatId, events>>
    /\ UNCHANGED serverVars

\* lines 538-544: newChat; the conversation left behind is saved first.
\* The result is the new currentChatId, currentMessages, chats, persisted
\* value and next id.
newChat(id, msgs, cs, st, nid) ==
    LET saved == IF id # 0 THEN saveChat(id, msgs, cs, st)
                 ELSE [chats |-> cs, stored |-> st]
    IN  [currentChatId |-> nid, currentMessages |-> <<>>,
         chats |-> detach(saved.chats), stored |-> saved.stored, nextId |-> nid + 1]

\* this.chats.filter(c => c.id !== chatId)
filter(cs, chatId) == SelectSeq(cs, LAMBDA c : c.id # chatId)

\* the ids of the history list's items a user can click: the first two,
\* the current conversation's
Clickable ==
    {chats[i].id : i \in {1, 2} \cap DOMAIN chats}
    \cup {chats[i].id : i \in {j \in DOMAIN chats : chats[j].id = currentChatId}}

userMessage == [role |-> "user", content |-> <<"hi">>]

\* response bodies of the requests sent from a conversation
HistoryStreams == {StreamOf(<<DeltaLine(<<"a">>)>>)}

\* the reader and the pending request are left as they are by the
\* handlers of the history list
streamVars == <<cStream, cPos, cReads, cPc, emitted, deltas, fullResponse, isTyping, cChatId>>

\* what the input field holds when Send is pressed
Inputs == {<<>>, <<WS>>, <<"hi">>, <<WS, "hi">>}

\* a sendMessage that does not look at isTyping
ignored_whileTypingToo(message, typing) == message = <<>>

\* line 335: if (!message || this.isTyping) return
ignored(message, typing) == message = <<>> \/ typing

\* lines 331-358: sendMessage up to its await; value is the input's value
SendStart(value) ==
    /\ events < MaxEvents
    /\ events' = events + 1
    /\ IF ignored(trim(value), isTyping)
       THEN /\ UNCHANGED <<currentChatId, currentMessages, chats, stored, nextId>>
            /\ UNCHANGED streamVars
       ELSE /\ LET fresh == newChat(currentChatId, currentMessages, chats, stored, nextId)
                   id == IF currentChatId = 0 THEN fresh.currentChatId ELSE currentChatId
                   cs == IF currentChatId = 0 THEN fresh.chats ELSE chats
                   msgs == Append(IF currentChatId = 0 THEN fresh.currentMessages
                                  ELSE currentMessages,
                                  [role |-> "user", content |-> trim(value)])
               IN  /\ currentChatId' = id
                   /\ nextId' = IF currentChatId = 0 THEN fresh.nextId ELSE nextId
                   /\ currentMessages' = msgs
                   /\ chats' = touch(cs, msgs)
                   /\ stored' = IF currentChatId = 0 THEN fresh.stored ELSE stored
                   /\ cChatId' = id
            /\ isTyping' = TRUE
            /\ cPc' = "sending"
            /\ cStream' = <<>>
            /\ cPos' = 0
            /\ cReads' = 0
            /\ emitted' = <<>>
            /\ deltas' = <<>>
            /\ fullResponse' = <<>>
    /\ UNCHANGED serverVars

\* lines 111-134 and 389-397: fetch() resolved with a success status
ClientResponse ==
    /\ cPc = "sending"
    /\ cStream' \in HistoryStreams
    /\ cPc' = "reading"
    /\ UNCHANGED <<cPos, cReads, emitted, deltas, fullResponse, currentMessages,
                   isTyping>>
    /\ UNCHANGED <<currentChatId, chats, stored, nextId, cChatId, events>>
    /\ UNCHANGED serverVars

\* response bodies of the turns of one conversation: a reply with text and
\* a reply without any
TurnStreams == {StreamOf(<<DeltaLine(<<"a">>)>>), StreamOf(<<DoneLine>>)}

\* lines 111-134 and 389-397: fetch() resolved with a success status
TurnResponse ==
    /\ cPc = "sending"
    /\ cStream' \in TurnStreams
    /\ cPc' = "reading"
    /\ UNCHANGED <<cPos, cReads, emitted, deltas, fullResponse, currentMessages,
                   isTyping>>
    /\ UNCHANGED <<currentChatId, chats, stored, nextId, cChatId, events>>
    /\ UNCHANGED serverVars

\* lines 113-121: the body API.sendMessage posts, as express.json hands it
\* to the handler; of a content the validator tests only whether it is
\* empty
postedBody(msgs) ==
    [messages |-> [kind |-> "array",
                   items |-> [i \in DOMAIN msgs |->
                                Obj(msgs[i].role,
                                    IF msgs[i].content = <<>> THEN "" ELSE "text")]],
     temperature |-> <<7>>, max_tokens |-> <<CONFIG_MAX_TOKENS>>,
     stream |-> <<TRUE>>]

\* lines 366-384: fetch() rejected, the status was an error or
\* reader.read() rejected; sendMessage's catch block runs
ClientFails ==
    /\ cPc \in {"sending", "reading"}
    /\ cPc' = "failed"
    /\ isTyping' = FALSE
    /\ UNCHANGED <<cStream, cPos, cReads, emitted, deltas, fullResponse,
                   currentMessages>>
    /\ UNCHANGED <<currentChatId, chats, stored, nextId, cChatId, events>>
    /\ UNCHANGED serverVars

\* lines 538-556: the New chat button or Ctrl+K
NewChat ==
    /\ events < MaxEvents
    /\ events' = events + 1
    /\ LET r == newChat(currentChatId, currentMessages, chats, stored, nextId) IN
       /\ currentChatId' = r.currentChatId
       /\ currentMessages' = r.currentMessages
       /\ chats' = r.chats
       /\ stored' = r.stored
       /\ nextId' = r.nextId
    /\ UNCHANGED streamVars
    /\ UNCHANGED serverVars

\* lines 618-638: a click on an item of the history list
LoadChat(chatId) ==
    /\ events < MaxEvents
    /\ events' = events + 1
    /\ IF findIndex(chats, chatId) = 0
       THEN UNCHANGED <<currentChatId, currentMessages, chats, stored>>
       ELSE LET chat == chats[findIndex(chats, chatId)]
                saved == IF currentChatId # 0
                         THEN saveChat(currentChatId, currentMessages, chats, stored)
                         ELSE [chats |-> chats, stored |-> stored]
            IN  /\ currentChatId' = chatId
                /\ currentMessages' = chat.messages
                /\ chats' = detach(saved.chats)
                /\ stored' = saved.stored
    /\ UNCHANGED nextId
    /\ UNCHANGED streamVars
    /\ UNCHANGED serverVars

\* lines 640-652: the delete button of an item, the dialog answered
DeleteChat(chatId, confirmed) ==
    /\ events < MaxEvents
    /\ events' = events + 1
    /\ IF ~confirmed
       THEN UNCHANGED <<currentChatId, currentMessages, chats, stored, nextId>>
       ELSE LET kept == filter(chats, chatId)
                r == newChat(currentChatId, currentMessages, kept, snapshot(kept), nextId)
            IN  IF currentChatId = chatId
                THEN /\ currentChatId' = r.currentChatId
                     /\ currentMessages' = r.currentMessages
                     /\ chats' = r.chats
                     /\ stored' = r.stored
                     /\ nextId' = r.nextId
                ELSE /\ chats' = kept
                     /\ stored' = snapshot(kept)
                     /\ UNCHANGED <<currentChatId, currentMessages, nextId>>
    /\ UNCHANGED streamVars
    /\ UNCHANGED serverVars

\* lines 654-663: Clear all, the dialog answered
ClearAll(confirmed) ==
    /\ events < MaxEvents
    /\ events' = events + 1
    /\ IF ~confirmed
       THEN UNCHANGED <<currentChatId, currentMessages, chats, stored, nextId>>
       ELSE LET r == newChat(currentChatId, currentMessages, <<>>, <<>>, nextId) IN
            /\ currentChatId' = r.currentChatId
            /\ currentMessages' = r.currentMessages
            /\ chats' = r.chats
            /\ stored' = r.stored
            /\ nextId' = r.nextId
    /\ UNCHANGED streamVars
    /\ UNCHANGED serverVars

\* ------------------------------- chatbot.js reading what the relay writes
\* what the relay has written is what the browser's reader can deliver
received == Flatten(res.written)

\* lines 111-134 and 389-397: fetch() resolved with a success status; the
\* read loop starts
PipeResponse ==
    /\ cPc = "sending"
    /\ res.headersSent
    /\ res.status = 200
    /\ res.json = <<>>
    /\ cPc' = "reading"
    /\ UNCHANGED <<cStream, cPos, cReads, emitted, deltas, fullResponse,
                   currentMessages, isTyping>>
    /\ UNCHANGED <<currentChatId, chats, stored, nextId, cChatId, events>>
    /\ UNCHANGED serverVars

\* lines 123-132 and 366-384: the response has an error status;
\* API.sendMessage throws and sendMessage's catch block runs
PipeFails ==
    /\ cPc = "sending"
    /\ res.headersSent
    /\ res.status >= 400
    /\ cPc' = "failed"
    /\ isTyping' = FALSE
    /\ UNCHANGED <<cStream, cPos, cReads, emitted, deltas, fullResponse,
                   currentMessages>>
    /\ UNCHANGED <<currentChatId, chats, stored, nextId, cChatId, events>>
    /\ UNCHANGED serverVars

\* reader.read() delivers the next k symbols of what has been written
PipeRead ==
    /\ cPc = "reading"
    /\ cPos < Len(received)
    /\ cReads < MaxPipeReads
    /\ \E k \in 1..(Len(received) - cPos) :
         LET chunk == SubSeq(received, cPos + 1, cPos + k) IN
         /\ emitted' = emitted \o visited(chunk)
         /\ deltas' = deltas \o chunkDeltas(chunk)
         /\ fullResponse' = fullResponse \o Flatten(chunkDeltas(chunk))
         /\ cPos' = cPos + k
    /\ cStream' = received
    /\ cReads' = cReads + 1
    /\ UNCHANGED <<cPc, currentMessages, isTyping>>
    /\ UNCHANGED <<currentChatId, chats, stored, nextId, cChatId, events>>
    /\ UNCHANGED serverVars

\* reader.read() delivers all that has been written and not yet read
PipeReadAll ==
    /\ cPc = "reading"
    /\ cPos < Len(received)
    /\ LET chunk == SubSeq(received, cPos + 1, Len(received)) IN
       /\ emitted' = emitted \o visited(chunk)
       /\ deltas' = deltas \o chunkDeltas(chunk)
       /\ fullResponse' = fullResponse \o Flatten(chunkDeltas(chunk))
    /\ cPos' = Len(received)
    /\ cStream' = received
    /\ cReads' = cReads + 1
    /\ UNCHANGED <<cPc, currentMessages, isTyping>>
    /\ UNCHANGED <<currentChatId, chats, stored, nextId, cChatId, events>>
    /\ UNCHANGED serverVars

\* reader.read() reports done: the response was ended and all of it read
PipeDone ==
    /\ res.ended
    /\ cPos = Len(received)
    /\ cStream' = received
    /\ cPc = "reading"
    /\ LET msgs == Append(currentMessages, [role |-> "assistant", content |-> fullResponse])
           saved == saveChat(currentChatId, msgs, touch(chats, msgs), stored)
       IN  /\ currentMessages' = msgs
           /\ chats' = saved.chats
           /\ stored' = saved.stored
    /\ isTyping' = FALSE
    /\ cPc' = "done"
    /\ UNCHANGED <<cPos, cReads, emitted, deltas, fullResponse>>
    /\ UNCHANGED <<currentChatId, nextId, cChatId, events>>
    /\ UNCHANGED serverVars

\* ----------------------------------------------------------- specifications
StreamingBody ==
    [messages |-> [kind |-> "array", items |-> <<Obj("user", "hi")>>],
     temperature |-> <<7>>, max_tokens |-> <<CONFIG_MAX_TOKENS>>,
     stream |-> <<TRUE>>]

\* the browser is not reading a response
ClientIdle ==
    /\ cStream = <<>>
    /\ cPos = 0
    /\ cReads = 0
    /\ cPc = "idle"
    /\ emitted = <<>>
    /\ deltas = <<>>
    /\ fullResponse = <<>>
    /\ currentMessages = <<>>
    /\ isTyping = FALSE
    /\ currentChatId = 0
    /\ chats = <<>>
    /\ stored = <<>>
    /\ nextId = MAX_CHAT_HISTORY + 1
    /\ cChatId = 0
    /\ events = 0

\* one request, no caller that goes away, no clock
ProcessIdle ==
    /\ closed = FALSE
    /\ reqs = <<>>
    /\ proc = proc0
    /\ arrivals = <<>>
    /\ now = 0

InitCommon ==
    /\ ClientIdle
    /\ pc = "start"
    /\ validation = <<>>
    /\ dispatched = <<>>
    /\ upPos = 0
    /\ upReads = 0
    /\ lastRead = "none"
    /\ res = res0
    /\ response = <<>>
    /\ health = <<>>
    /\ ProcessIdle

\* any request body, a short upstream stream
Init ==
    /\ GROQ_API_KEY \in BOOLEAN
    /\ body \in Bodies
    /\ upstream \in Streams(1)
    /\ InitCommon

\* one well-formed streaming request, any upstream stream
InitRelay ==
    /\ GROQ_API_KEY = TRUE
    /\ body = StreamingBody
    /\ upstream \in Streams(MaxFrames)
    /\ InitCommon

Next ==
    \/ Health
    \/ ChatEntry
    \/ FetchRejects
    \/ FetchError
    \/ FetchCompletion
    \/ FetchStream
    \/ ReadChunk
    \/ ReadDone
    \/ ReadFails

\* streamResponse has its response and starts to read it
ClientStart(streams) ==
    /\ GROQ_API_KEY = TRUE
    /\ body = StreamingBody
    /\ upstream = <<>>
    /\ pc = "idle"
    /\ validation = <<>>
    /\ dispatched = <<>>
    /\ upPos = 0
    /\ upReads = 0
    /\ lastRead = "none"
    /\ res = res0
    /\ response = <<>>
    /\ health = <<>>
    /\ cStream \in streams
    /\ cPos = 0
    /\ cReads = 0
    /\ cPc = "reading"
    /\ emitted = <<>>
    /\ deltas = <<>>
    /\ fullResponse = <<>>
    /\ currentMessages = <<[role |-> "user", content |-> <<"hi">>]>>
    /\ isTyping = TRUE
    /\ currentChatId = MAX_CHAT_HISTORY + 1
    /\ chats = <<>>
    /\ stored = <<>>
    /\ nextId = MAX_CHAT_HISTORY + 2
    /\ cChatId = MAX_CHAT_HISTORY + 1
    /\ events = 0
    /\ ProcessIdle

\* a well-formed response body
InitClient == ClientStart(Streams(MaxFrames))

\* a response body with any lines
InitDecode == ClientStart(DecodeStreams(MaxFrames))

NextClient ==
    \/ ClientRead
    \/ ClientDone

Spec == Init /\ [][Next]_vars

SpecClient == InitClient /\ [][NextClient]_vars

SpecDecode == InitDecode /\ [][NextClient]_vars

NextRelay ==
    \/ ChatEntry
    \/ FetchRejects
    \/ FetchError
    \/ FetchStream
    \/ ReadChunk
    \/ ReadDone
    \/ ReadFails

SpecRelay == InitRelay /\ [][NextRelay]_vars

\* upstream streams of two events: two contents, a content and the
\* upstream's own sentinel, a sentinel before a content
PipeStreams ==
    {StreamOf(<<DeltaLine(<<"a">>), DeltaLine(<<"b">>)>>),
     StreamOf(<<DeltaLine(<<"b">>), DoneLine>>),
     StreamOf(<<DoneLine, DeltaLine(<<"a">>)>>)}

\* the browser has posted its request and waits; the relay serves it
InitPipe ==
    /\ GROQ_API_KEY = TRUE
    /\ body = StreamingBody
    /\ upstream \in PipeStreams
    /\ pc = "start"
    /\ validation = <<>>
    /\ dispatched = <<>>
    /\ upPos = 0
    /\ upReads = 0
    /\ lastRead = "none"
    /\ res = res0
    /\ response = <<>>
    /\ health = <<>>
    /\ ProcessIdle
    /\ cStream = <<>>
    /\ cPos = 0
    /\ cReads = 0
    /\ cPc = "sending"
    /\ emitted = <<>>
    /\ deltas = <<>>
    /\ fullResponse = <<>>
    /\ currentMessages = <<[role |-> "user", content |-> <<"hi">>]>>
    /\ isTyping = TRUE
    /\ currentChatId = MAX_CHAT_HISTORY + 1
    /\ chats = <<>>
    /\ stored = <<>>
    /\ nextId = MAX_CHAT_HISTORY + 2
    /\ cChatId = MAX_CHAT_HISTORY + 1
    /\ events = 0

NextPipe ==
    \/ NextRelay
    \/ PipeResponse
    \/ PipeFails
    \/ PipeRead
    \/ PipeDone

SpecPipe == InitPipe /\ [][NextPipe]_vars

\* the browser's side of one request, reading whatever has arrived
ClientLive ==
    \/ PipeResponse
    \/ PipeFails
    \/ PipeReadAll
    \/ PipeDone

NextLive ==
    \/ NextRelay
    \/ ClientLive

\* the handler goes on while it can, and so does the browser; which way
\* the upstream answers is left open
SpecLive == InitPipe /\ [][NextLive]_vars /\ WF_vars(NextRelay) /\ WF_vars(ClientLive)

\* a conversation of the stored history
OldChat(i) == [id |-> i, messages |-> <<userMessage>>, live |-> FALSE]

\* the history a page load finds stored: empty, one below the maximum, full
StoredHistories ==
    {[i \in 1..n |-> OldChat(i)] : n \in {0, MAX_CHAT_HISTORY - 1, MAX_CHAT_HISTORY}}

\* lines 222-235: the page has loaded, nothing was sent yet
InitHistory ==
    /\ GROQ_API_KEY = TRUE
    /\ body = StreamingBody
    /\ upstream = <<>>
    /\ pc = "idle"
    /\ validation = <<>>
    /\ dispatched = <<>>
    /\ upPos = 0
    /\ upReads = 0
    /\ lastRead = "none"
    /\ res = res0
    /\ response = <<>>
    /\ health = <<>>
    /\ ProcessIdle
    /\ cStream = <<>>
    /\ cPos = 0
    /\ cReads = 0
    /\ cPc = "idle"
    /\ emitted = <<>>
    /\ deltas = <<>>
    /\ fullResponse = <<>>
    /\ currentMessages = <<>>
    /\ isTyping = FALSE
    /\ currentChatId = 0
    /\ chats \in StoredHistories
    /\ stored = snapshot(chats)
    /\ nextId = MAX_CHAT_HISTORY + 1
    /\ cChatId = 0
    /\ events = 0

NextHistory ==
    \/ \E value \in Inputs : SendStart(value)
    \/ ClientResponse
    \/ ClientFails
    \/ ClientRead
    \/ ClientDone
    \/ NewChat
    \/ \E chatId \in Clickable : LoadChat(chatId)
    \/ \E chatId \in Clickable, confirmed \in BOOLEAN : DeleteChat(chatId, confirmed)
    \/ \E confirmed \in BOOLEAN : ClearAll(confirmed)

SpecHistory == InitHistory /\ [][NextHistory]_vars

\* the relay of one streaming request whose caller may go away
NextClose ==
    \/ NextRelay
    \/ ClientCloses

SpecClose == InitRelay /\ [][NextClose]_vars

\* several streaming requests are being served at once
InitPair ==
    /\ GROQ_API_KEY = TRUE
    /\ body = StreamingBody
    /\ upstream = <<>>
    /\ pc = "idle"
    /\ validation = <<>>
    /\ dispatched = <<>>
    /\ upPos = 0
    /\ upReads = 0
    /\ lastRead = "none"
    /\ res = res0
    /\ response = <<>>
    /\ health = <<>>
    /\ closed = FALSE
    /\ reqs = [id \in 1..MaxReqs |-> Req0(id)]
    /\ proc = proc0
    /\ arrivals = <<>>
    /\ now = 0
    /\ ClientIdle

NextPair ==
    \/ \E id \in DOMAIN reqs : ReqStream(id) /\ UNCHANGED pairFrame
    \/ \E id \in DOMAIN reqs : ReqRejects(id) /\ UNCHANGED pairFrame
    \/ \E id \in DOMAIN reqs : ReqRead(id) /\ UNCHANGED pairFrame
    \/ \E id \in DOMAIN reqs : ReqDone(id) /\ UNCHANGED pairFrame
    \/ \E id \in DOMAIN reqs : ReqFails(id) /\ UNCHANGED pairFrame

SpecPair == InitPair /\ [][NextPair]_vars

\* the server has started and listens
InitShutdown ==
    /\ GROQ_API_KEY = TRUE
    /\ body = StreamingBody
    /\ upstream = <<>>
    /\ pc = "idle"
    /\ validation = <<>>
    /\ dispatched = <<>>
    /\ upPos = 0
    /\ upReads = 0
    /\ lastRead = "none"
    /\ res = res0
    /\ response = <<>>
    /\ health = <<>>
    /\ ProcessIdle
    /\ ClientIdle

Signals == {"SIGTERM", "SIGINT", "UNCAUGHT_EXCEPTION"}

NextShutdown ==
    \/ Accept
    \/ ConnCloses
    \/ \E signal \in Signals : Shutdown(signal)
    \/ TimerFires
    \/ Tick

\* time goes on and a timer that is due fires; that a connection ever
\* ends is not assumed
SpecShutdown ==
    InitShutdown /\ [][NextShutdown]_vars /\ WF_vars(Tick) /\ WF_vars(TimerFires)

\* the server is up; well-formed streaming requests arrive one after one
InitRate ==
    /\ GROQ_API_KEY = TRUE
    /\ body = StreamingBody
    /\ upstream = <<>>
    /\ pc = "idle"
    /\ validation = <<>>
    /\ dispatched = <<>>
    /\ upPos = 0
    /\ upReads = 0
    /\ lastRead = "none"
    /\ res = res0
    /\ response = <<>>
    /\ health = <<>>
    /\ ProcessIdle
    /\ ClientIdle

NextRate ==
    \/ Arrive
    \/ SecondPasses
    \/ ChatEntry
    \/ FetchRejects
    \/ FetchStream
    \/ ReadDone

SpecRate == InitRate /\ [][NextRate]_vars

\* one conversation, turn after turn, in a browser without history
InitTurns == InitHistory /\ chats = <<>>

NextTurns ==
    \/ \E value \in Inputs : SendStart(value)
    \/ TurnResponse
    \/ ClientFails
    \/ ClientRead
    \/ ClientDone

SpecTurns == InitTurns /\ [][NextTurns]_vars

\* ---------------------------------------------------------------- claims
\* C1: when the stream has been read to its end, the contents appended to
\* the response text are those the same text gives when it arrives as one
\* chunk, whatever the chunks were.
C1_ChunkingIndependent ==
    cPc = "done" => deltas = chunkDeltas(cStream)

\* C2: the part after the last line break of what has arrived is kept
\* back: every non-empty part handed to the decoder had its terminating
\* line break arrive with it.
C2_OnlyTerminatedLinesDecoded ==
    \A i \in 1..Len(emitted) :
        emitted[i].line # <<>> => emitted[i].terminated

\* C3: when the upstream is exhausted, the frames written are the upstream
\* data lines, each unchanged and followed by a blank line, in order (and
\* then the relay's terminator).
C3_RelayCopiesDataLines ==
    lastRead = "done" =>
        res.written =
            [i \in 1..Len(DataLines(upstream)) |-> DataLines(upstream)[i] \o <<NL, NL>>]
            \o <<DoneFrame>>

\* C4: a handler that returned because reading the upstream failed after a
\* frame was written has ended the response.
C4_FailedStreamIsEnded ==
    (pc = "returned" /\ lastRead = "error" /\ Len(res.written) >= 1) => res.ended

\* C5: the read that reports the upstream exhausted appends exactly the
\* frame data: [DONE] and ends the response; an ended response is never
\* written again; and the browser's decoding of what was written is the
\* same with and without that last frame, also when the upstream sent a
\* [DONE] of its own.
C5_OwnDoneThenEnd ==
    /\ [][(lastRead # "done" /\ lastRead' = "done") =>
             /\ res'.written = Append(res.written, DoneFrame)
             /\ ~res.ended
             /\ res'.ended]_vars
    /\ [][res.ended => res' = res]_vars
    /\ [](lastRead = "done" =>
             /\ res.written # <<>>
             /\ chunkDeltas(Flatten(res.written)) =
                    chunkDeltas(Flatten(SubSeq(res.written, 1, Len(res.written) - 1))))

\* the upstream sent its own [DONE] and the relay added its own
C5_Witness ==
    /\ lastRead = "done"
    /\ Len(res.written) >= 3
    /\ res.written[Len(res.written)] = DoneFrame
    /\ res.written[Len(res.written) - 1] = DoneFrame
    /\ res.written[1] = DeltaLine(<<"a">>) \o <<NL, NL>>
    /\ res.ended

\* validateChatRequest returned an error for the body
Rejected ==
    /\ validation # <<>>
    /\ validation[1].outcome = "return"
    /\ ~validation[1].valid

\* C6: a body validateChatRequest rejects is answered 400 with the error it
\* returned, and nothing is posted upstream.
C6_RejectedIs400 ==
    Rejected =>
        /\ res.status = 400
        /\ res.json = <<[error |-> validation[1].error]>>
        /\ res.ended
        /\ dispatched = <<>>

\* messages: [] was rejected
C6_Witness ==
    /\ Rejected
    /\ body.messages.kind = "array"
    /\ body.messages.items = <<>>
    /\ res.status = 400
    /\ res.json = <<[error |-> ERR_MESSAGES]>>

\* the four rules as the specification states them
Rule1Violated(b) == b.messages.kind # "array" \/ b.messages.items = <<>>

Rule2Violated(b) ==
    \E i \in 1..Len(b.messages.items) :
        \/ b.messages.items[i].kind = "null"
        \/ b.messages.items[i].role = ""
        \/ b.messages.items[i].content = ""

Rule3Violated(b) ==
    b.temperature # <<>> /\ ~(0 <= b.temperature[1] /\ b.temperature[1] <= 20)

Rule4Violated(b) ==
    b.max_tokens # <<>> /\ ~(1 <= b.max_tokens[1] /\ b.max_tokens[1] <= 4096)

FirstViolated(b) ==
    IF Rule1Violated(b) THEN ERR_MESSAGES
    ELSE IF Rule2Violated(b) THEN ERR_MESSAGE
    ELSE IF Rule3Violated(b) THEN ERR_TEMPERATURE
    ELSE IF Rule4Violated(b) THEN ERR_MAX_TOKENS
    ELSE ""

\* C7: validateChatRequest returns the error of the first rule the body
\* violates, and Valid for a body that violates none.
C7_FirstViolatedRuleReported ==
    validation # <<>> =>
        validation[1] = Returns(FirstViolated(body) = "", FirstViolated(body))

\* C8: a non-empty messages array with an element that lacks a role or a
\* content, null included, gets the MalformedMessage error as a returned
\* value and the request is answered 400.
C8_MalformedMessageReturned ==
    (validation # <<>> /\ ~Rule1Violated(body) /\ Rule2Violated(body)) =>
        /\ validation[1] = Returns(FALSE, ERR_MESSAGE)
        /\ res.status = 400

\* C9: a body with max_tokens present is accepted only when
\* 1 <= max_tokens <= 4096, and no request posted upstream carries a
\* caller's max_tokens outside that range.
C9_MaxTokensInRange ==
    /\ (validation # <<>> /\ validation[1].valid /\ body.max_tokens # <<>>) =>
           (1 <= body.max_tokens[1] /\ body.max_tokens[1] <= 4096)
    /\ \A i \in 1..Len(dispatched) :
           body.max_tokens # <<>> =>
               (1 <= dispatched[i].max_tokens /\ dispatched[i].max_tokens <= 4096)

Accepted ==
    /\ validation # <<>>
    /\ validation[1].outcome = "return"
    /\ validation[1].valid

\* C12: a request that passed the credential check and validation has
\* posted exactly one request upstream, in every later state and whatever
\* the upstream did; no other request posts any.
C12_ExactlyOneDispatch ==
    /\ Accepted => Len(dispatched) = 1
    /\ ~Accepted => dispatched = <<>>

\* one dispatch, though the upstream stream failed in the middle
C12_Witness ==
    /\ Accepted
    /\ pc = "returned"
    /\ lastRead = "error"
    /\ Len(res.written) >= 1
    /\ Len(dispatched) = 1

\* C13: the messages of every dispatch are the server's system message at
\* the first position followed by the caller's messages, unchanged and in
\* their order.
C13_SystemMessageFirst ==
    \A i \in 1..Len(dispatched) :
        LET sent == dispatched[i].messages IN
        /\ Len(sent) = Len(body.messages.items) + 1
        /\ sent[1] = [kind |-> "object", role |-> "system", content |-> "COMPANY_CONTEXT"]
        /\ \A j \in 1..Len(body.messages.items) : sent[j + 1] = body.messages.items[j]

\* a caller whose first message claims the system role: the server's
\* message still comes first
C13_Witness ==
    /\ Len(dispatched) = 1
    /\ Len(body.messages.items) = 2
    /\ body.messages.items[1].role = "system"
    /\ body.messages.items[2].role = "user"
    /\ dispatched[1].messages[1].content = "COMPANY_CONTEXT"

\* C14: in every dispatch the only message with role system is the one
\* the server prepends.
C14_OnlyServerSystemMessage ==
    \A i \in 1..Len(dispatched) :
        \A j \in 2..Len(dispatched[i].messages) :
            dispatched[i].messages[j].role # "system"

\* C16: when fetch() rejected, the request is answered 500 with one JSON
\* error body, and nothing of a stream or of a success body was written.
C16_RejectedFetchIs500 ==
    (response # <<>> /\ response[1].kind = "rejected") =>
        /\ res.status = 500
        /\ res.json = <<[error |-> UNEXPECTED]>>
        /\ res.ended
        /\ res.written = <<>>
        /\ pc = "returned"

\* a non-streaming request whose upstream call failed
C16_Witness ==
    /\ response # <<>>
    /\ response[1].kind = "rejected"
    /\ body.stream = <<FALSE>>
    /\ res.status = 500
    /\ Len(dispatched) = 1

\* C15: a non-success upstream status is answered with the upstream's
\* status code and with the upstream's error message, or with a generic
\* text when the message is missing or the body is not JSON.
C15_UpstreamStatusPreserved ==
    (response # <<>> /\ response[1].kind = "error") =>
        /\ res.status = response[1].status
        /\ res.ended
        /\ \/ /\ response[1].errBody = "message"
              /\ res.json = <<[error |-> "upstream message"]>>
           \/ /\ response[1].errBody # "message"
              /\ res.json \in {<<[error |-> "AI service error"]>>,
                               <<[error |-> UNEXPECTED]>>}

\* C17: a successful non-streaming upstream response is answered 200 with
\* the first choice's message content, or "" when there is none (choices
\* missing or empty, no message, no content), and with the upstream's model
\* and usage.
C17_CompletionReply ==
    (response # <<>> /\ response[1].kind = "completion") =>
        /\ res.status = 200
        /\ res.json =
               <<[message |-> IF response[1].choices = "content" THEN "answer" ELSE "",
                  model |-> response[1].model,
                  usage |-> response[1].usage]>>

\* C18: the health answer is 200 / ok / apiConfigured exactly when the
\* credential is set and 503 / degraded / not configured exactly when it is
\* not, and answering it posts nothing upstream.
C18_HealthReflectsCredential ==
    /\ [](health # <<>> =>
             /\ GROQ_API_KEY =>
                    health[1] = [code |-> 200, status |-> "ok", apiConfigured |-> TRUE]
             /\ ~GROQ_API_KEY =>
                    health[1] = [code |-> 503, status |-> "degraded",
                                 apiConfigured |-> FALSE])
    /\ [][health' # health => dispatched' = dispatched]_vars

\* a health request answered without a credential
C18_Witness ==
    /\ health # <<>>
    /\ ~GROQ_API_KEY
    /\ health[1].code = 503
    /\ health[1].status = "degraded"

\* what the decoder is specified to yield for a line
decodeClaimed(line) ==
    LET trimmed == trim(line)
        payload == slice(trimmed, Len(DATA_PREFIX))
    IN  IF /\ startsWith(trimmed, DATA_PREFIX)
           /\ payload # DONE
           /\ parseContent(payload).outcome = "ok"
           /\ parseContent(payload).content # <<>>
        THEN parseContent(payload).content
        ELSE <<>>

\* C19: the contents appended are, line by line, those of the lines whose
\* trimmed text starts with `data: `, is not the sentinel, parses and has a
\* non-empty content; every other line adds nothing.
C19_DeltaExactlyForContentLines ==
    deltas =
        SelectSeq([i \in 1..Len(emitted) |-> decodeClaimed(emitted[i].line)],
                  LAMBDA c : c # <<>>)

\* a data line whose JSON is complete and carries a content
WellFormedDelta(line) == \E c \in ContentSyms : line = DeltaLine(<<c>>)

\* a data line whose payload is neither the sentinel nor complete JSON
Malformed(line) ==
    /\ startsWith(line, DATA_PREFIX)
    /\ slice(line, Len(DATA_PREFIX)) # DONE
    /\ line[Len(line)] # "}"

\* the contents of the well-formed lines handed to the decoder, in order
GoodContents(em) ==
    SelectSeq([i \in 1..Len(em) |->
                  IF WellFormedDelta(em[i].line) THEN <<em[i].line[4]>> ELSE <<>>],
              LAMBDA c : c # <<>>)

\* C20: a line whose payload fails to parse stops nothing: the contents
\* appended are those of all well-formed lines handed to the decoder, those
\* after a malformed line included, and the stream completes with the
\* assistant message made of them.
C20_ParseFailureDoesNotAbort ==
    /\ deltas = GoodContents(emitted)
    /\ fullResponse = Flatten(deltas)
    /\ cPc = "done" =>
           /\ ~isTyping
           /\ currentMessages[Len(currentMessages)] =
                  [role |-> "assistant", content |-> Flatten(GoodContents(emitted))]

\* a well-formed line decoded after a malformed one, stream completed
C20_Witness ==
    /\ cPc = "done"
    /\ \E i, j \in 1..Len(emitted) :
           /\ i < j
           /\ Malformed(emitted[i].line)
           /\ WellFormedDelta(emitted[j].line)
    /\ deltas = <<<<"a">>>>

\* the first visited line that is the sentinel (0 for none)
firstDone(em) ==
    IF \E i \in DOMAIN em : em[i].line = DoneLine
    THEN CHOOSE i \in DOMAIN em :
             em[i].line = DoneLine /\ \A j \in 1..(i - 1) : em[j].line # DoneLine
    ELSE 0

\* C21: the sentinel adds no content, and once the decoder has met it the
\* contents appended are those of the lines before it: no later line of
\* the stream adds one.
C21_DoneIsTerminal ==
    firstDone(emitted) > 0 =>
        deltas = GoodContents(SubSeq(emitted, 1, firstDone(emitted) - 1))

\* a is b with some elements left out, the others in their order
RECURSIVE IsSubseq(_, _)
IsSubseq(a, b) ==
    IF a = <<>> THEN TRUE
    ELSE IF b = <<>> THEN FALSE
    ELSE IF Head(a) = Head(b) THEN IsSubseq(Tail(a), Tail(b))
    ELSE IsSubseq(a, Tail(b))

IsPrefix(a, b) == Len(a) <= Len(b) /\ SubSeq(b, 1, Len(a)) = a

\* the contents the upstream sent, in the order it sent them
UpstreamContents ==
    LET ls == DataLines(upstream) IN
    SelectSeq([i \in 1..Len(ls) |-> IF WellFormedDelta(ls[i]) THEN <<ls[i][4]>> ELSE <<>>],
              LAMBDA c : c # <<>>)

\* C22: relay and browser keep the arrival order.  What the relay has
\* written and what the browser has decoded only ever grow at the end; the
\* contents decoded are contents the upstream sent, in the upstream's
\* order; the response text is at every moment their concatenation; and
\* the reply stored when the stream completes is the concatenation of all
\* of them.
C22_ArrivalOrderKept ==
    /\ [][IsPrefix(res.written, res'.written) /\ IsPrefix(deltas, deltas')]_vars
    /\ [](/\ IsSubseq(deltas, UpstreamContents)
          /\ fullResponse = Flatten(deltas)
          /\ cPc = "done" =>
                 currentMessages[Len(currentMessages)] =
                     [role |-> "assistant", content |-> Flatten(deltas)])

\* two contents, relayed in two reads and decoded in two reads, stored
C22_Witness ==
    /\ cPc = "done"
    /\ upReads >= 2
    /\ cReads = 2
    /\ deltas = <<<<"a">>, <<"b">>>>
    /\ currentMessages[Len(currentMessages)].content = <<"a", "b">>

\* a request of sendMessage is pending and the user has left the
\* conversation it was sent from
LeftWhilePending ==
    /\ cPc \in {"sending", "reading"}
    /\ currentChatId # cChatId

\* C23: once the user has left the conversation of a pending stream, the
\* stream is aborted: no further chunk is read, no further content is
\* appended, and the stream does not complete, which is what pushes its
\* reply to a message list.
C23_LeavingAbortsStream ==
    [][LeftWhilePending =>
          /\ cReads' = cReads
          /\ deltas' = deltas
          /\ cPc' # "done"]_vars

\* C24: once the caller's connection has closed with the upstream not yet
\* exhausted, the relay reads the upstream no more: no further chunk is
\* delivered to it.
C24_ClosedStopsRelay ==
    [][(closed /\ upPos < Len(upstream)) =>
          (upReads' = upReads /\ upPos' = upPos)]_vars

\* the frames the data lines of the given chunks make, chunk after chunk
OwnFrames(chunks) ==
    Flatten([k \in 1..Len(chunks) |->
                [i \in 1..Len(DataLines(chunks[k])) |->
                    DataLines(chunks[k])[i] \o <<NL, NL>>]])

\* C25: whatever the interleaving of the concurrent requests, the chunks a
\* request has read are its own upstream's text, in order; what its
\* response holds is exactly the frames of those chunks, then its own
\* terminator once its own upstream is exhausted, or the 500 of its own
\* failure; and a request that is reading can take its next read whatever
\* the others wait for.
C25_RequestsIsolated ==
    \A id \in DOMAIN reqs :
        LET r == reqs[id] IN
        /\ Flatten(r.chunks) = SubSeq(r.upstream, 1, r.upPos)
        /\ r.res.written =
               OwnFrames(r.chunks) \o (IF r.lastRead = "done" THEN <<DoneFrame>> ELSE <<>>)
        /\ r.res.ended =
               (r.lastRead = "done" \/ (r.pc = "returned" /\ OwnFrames(r.chunks) = <<>>))
        /\ r.res.json # <<>> => (r.pc = "returned" /\ r.lastRead \in {"none", "error"})
        /\ r.pc = "reading" => ENABLED (ReqRead(id) \/ ReqDone(id))

\* the first request has relayed its stream to the end, in two reads,
\* while the second failed after its first frame
C25_Witness ==
    /\ reqs[1].lastRead = "done"
    /\ Len(reqs[1].chunks) = 2
    /\ reqs[1].res.written = <<DeltaLine(<<"a">>) \o <<NL, NL>>, DoneFrame>>
    /\ reqs[2].lastRead = "error"
    /\ reqs[2].res.written = <<DeltaLine(<<"b">>) \o <<NL, NL>>>>
    /\ ~reqs[2].res.ended

\* C26: the relay forwards as it reads and keeps nothing.  The step that
\* reads a chunk also writes every data line of that chunk, so all of them
\* are written before the next read; and what the step writes is made of
\* the chunk just read alone, whatever the chunks before it were.
C26_ForwardsAsItReads ==
    [][upReads' = upReads + 1 =>
          res'.written =
              res.written \o OwnFrames(<<SubSeq(upstream, upPos + 1, upPos')>>)]_vars

\* the first chunk's frame is in the response while the upstream still
\* has text to deliver
C26_Witness ==
    /\ lastRead = "chunk"
    /\ upReads = 1
    /\ upPos < Len(upstream)
    /\ res.written = <<DeltaLine(<<"a">>) \o <<NL, NL>>>>

\* C27: once a shutdown has begun the server listens no more and accepts
\* no further connection; the process then exits in the end, whatever the
\* connections do; it exits with code 0 only with no connection open, and
\* with code 1 only with a connection still open at the very second a
\* grace period ends.
C27_ShutdownExits ==
    /\ [](proc.closing => ~proc.listening)
    /\ [][proc.closing => proc'.conns <= proc.conns]_vars
    /\ (proc.closing ~> proc.exit # <<>>)
    /\ [](proc.exit = <<0>> => (proc.closing /\ proc.conns = 0))
    /\ [](proc.exit = <<1>> =>
             /\ proc.closing
             /\ proc.conns > 0
             /\ \E t \in proc.timers : t = now /\ \A u \in proc.timers : u >= t)

\* the forced exit: a connection stayed open for the whole grace period
\* of a shutdown begun in the first second
C27_Witness ==
    /\ proc.exit = <<1>>
    /\ proc.conns = 1
    /\ now = 1 + GRACE_SECONDS
    /\ proc.timers = {1 + GRACE_SECONDS, 2 + GRACE_SECONDS}

\* the ids of a list of conversations, in the list's order
Ids(cs) == [i \in DOMAIN cs |-> cs[i].id]

\* C28: `chats` and the persisted value never hold more than the maximum
\* number of conversations; and a step that adds a conversation to a full
\* list, so that the maximum is exceeded, puts it at the front and drops
\* the list's last one.
C28_HistoryCapped ==
    /\ [](Len(chats) <= MAX_CHAT_HISTORY /\ Len(stored) <= MAX_CHAT_HISTORY)
    /\ [][(/\ Len(chats) = MAX_CHAT_HISTORY
            /\ Len(chats') = MAX_CHAT_HISTORY
            /\ Ids(chats') # Ids(chats)
            /\ LET before == {chats[j].id : j \in DOMAIN chats}
               IN  \E i \in DOMAIN chats' : chats'[i].id \notin before) =>
              /\ Ids(chats') =
                     <<chats'[1].id>> \o SubSeq(Ids(chats), 1, MAX_CHAT_HISTORY - 1)
              /\ Ids(stored') = Ids(chats')]_vars

\* a full history after a new conversation was saved: the new one first,
\* the oldest gone
C28_Witness ==
    /\ Len(chats) = MAX_CHAT_HISTORY
    /\ chats[1].id = MAX_CHAT_HISTORY + 1
    /\ chats[MAX_CHAT_HISTORY].id = MAX_CHAT_HISTORY - 1
    /\ Len(stored) = MAX_CHAT_HISTORY
    /\ stored[1].id = MAX_CHAT_HISTORY + 1

\* the requests that arrived within the window that ends now
InWindow == SelectSeq(arrivals, LAMBDA t : t > now - RATE_LIMIT_WINDOW)

\* C29: of the requests that arrive within one window at most
\* RATE_LIMIT_MAX are posted upstream, and a request beyond them is
\* answered 429.
C29_RateLimitEnforced ==
    Len(InWindow) = Len(arrivals) =>
        /\ Len(dispatched) <= RATE_LIMIT_MAX
        /\ (Len(InWindow) > RATE_LIMIT_MAX /\ pc = "returned") => res.status = 429

\* C30: after a confirmed deleteChat(id) no conversation with that id is
\* left in chats or in the persisted chats, the current conversation with
\* messages included.
C30_DeletedIsGone ==
    [][\A id \in {chats[j].id : j \in DOMAIN chats} :
          DeleteChat(id, TRUE) =>
              /\ \A i \in DOMAIN chats' : chats'[i].id # id
              /\ \A i \in DOMAIN stored' : stored'[i].id # id]_vars

\* C31: after a confirmed clearAll, chats and the persisted chats are
\* empty, whatever the current conversation held.
C31_ClearAllEmpties ==
    [][ClearAll(TRUE) => (chats' = <<>> /\ stored' = <<>>)]_vars

\* the step in which streamResponse pushes the reply and the conversation
\* is saved
ReplyStored == cPc = "reading" /\ cPc' = "done"

\* C32: the reply to a user message is appended to the conversation the
\* message was sent in, and to no other conversation, whatever newChat,
\* loadChat, deleteChat and clearAll did while the request was pending.
C32_ReplyInItsConversation ==
    [][ReplyStored =>
          LET reply == [role |-> "assistant", content |-> fullResponse] IN
          /\ \E i \in DOMAIN chats' :
                /\ chats'[i].id = cChatId
                /\ chats'[i].messages # <<>>
                /\ chats'[i].messages[Len(chats'[i].messages)] = reply
          /\ \A i \in DOMAIN chats' :
                chats'[i].id # cChatId =>
                    \E j \in DOMAIN chats :
                        /\ chats[j].id = chats'[i].id
                        /\ chats[j].messages = chats'[i].messages]_vars

\* C33: while a response is pending isTyping is true, and a sendMessage
\* invoked while isTyping is true sends nothing and changes neither
\* currentMessages nor what is displayed: one request is in flight at most.
C33_OneRequestInFlight ==
    /\ [](cPc \in {"sending", "reading"} => isTyping)
    /\ [][\A value \in Inputs :
             (isTyping /\ SendStart(value)) =>
                 /\ UNCHANGED <<currentMessages, currentChatId, chats, stored, nextId>>
                 /\ UNCHANGED streamVars]_vars

\* a request is pending and Send was pressed once more: the list still
\* holds the one message that was sent
C33_Witness ==
    /\ isTyping
    /\ cPc = "reading"
    /\ events = 2
    /\ currentChatId = MAX_CHAT_HISTORY + 1
    /\ nextId = MAX_CHAT_HISTORY + 2
    /\ chats = <<>>
    /\ Len(currentMessages) = 1

\* C34: after a sendMessage the client comes back to a state where
\* isTyping is false, whatever the upstream does.
C34_TypingEnds == isTyping ~> ~isTyping

\* the step in which sendMessage posts a request
Posted == ~isTyping /\ isTyping'

\* C35: every message of a request the client posts has a role and a
\* content that are not empty, so the server's validator never answers
\* that each message must have role and content.
C35_PostedMessagesNonEmpty ==
    [][Posted =>
          /\ \A i \in DOMAIN currentMessages' :
                currentMessages'[i].role # "" /\ currentMessages'[i].content # <<>>
          /\ validateChatRequest(postedBody(currentMessages')).error # ERR_MESSAGE]_vars

\* the step in which sendMessage's catch block runs
SendFailed == isTyping /\ ~isTyping' /\ cPc' = "failed"

\* C36: a failed send leaves currentMessages as it was before that
\* sendMessage (the list without the message that was pushed), so
\* between two requests every user message of the list has its reply.
C36_FailedSendLeavesNoMessage ==
    /\ [][SendFailed =>
             currentMessages' = SubSeq(currentMessages, 1, Len(currentMessages) - 1)]_vars
    /\ [](~isTyping =>
             \A i \in DOMAIN currentMessages :
                 currentMessages[i].role = "user" =>
                     /\ i < Len(currentMessages)
                     /\ currentMessages[i + 1].role = "assistant")

\* C37: a request gets one response at most: a JSON body is never sent
\* together with a stream, and once the response has been ended (by a
\* JSON body or by res.end()) nothing of it changes.
C37_AtMostOneResponse ==
    /\ [](res.json # <<>> => (res.ended /\ res.written = <<>>))
    /\ [][res.ended => res' = res]_vars

\* the stream failed after its first frame: the handler has returned and
\* no JSON body was added to the stream
C37_Witness ==
    /\ pc = "returned"
    /\ lastRead = "error"
    /\ Len(res.written) >= 1
    /\ res.json = <<>>

\* C38: the conversation ids in chats, and in the persisted chats, are
\* pairwise distinct in every reachable state.
C38_DistinctIds ==
    /\ Cardinality({chats[i].id : i \in DOMAIN chats}) = Len(chats)
    /\ Cardinality({stored[i].id : i \in DOMAIN stored}) = Len(stored)

\* a conversation saved a second time after its second turn: its entry was
\* replaced, not added again
C38_Witness ==
    /\ cPc = "done"
    /\ Len(chats) = 1
    /\ chats[1].id = currentChatId
    /\ Len(stored) = 1
    /\ Len(stored[1].messages) = 4

\* the messages a history holds for a conversation (<<>> when it holds
\* none, <<messages>> otherwise)
entryOf(cs, id) ==
    IF findIndex(cs, id) = 0 THEN <<>> ELSE <<cs[findIndex(cs, id)].messages>>

\* C39: the message list chats holds for a conversation changes only when
\* saveChat runs for it: a push to currentMessages does not alter it, and
\* a deleteChat of another conversation persists no message of the
\* current conversation that was not saved.
C39_StoredChangesOnlyBySave ==
    /\ [][Posted =>
             \A i \in DOMAIN chats \cap DOMAIN chats' :
                 chats'[i].id = chats[i].id =>
                     chats'[i].messages = chats[i].messages]_vars
    /\ [][\A id \in Clickable :
             (currentChatId # 0 /\ id # currentChatId /\ DeleteChat(id, TRUE)) =>
                 entryOf(stored', currentChatId) = entryOf(stored, currentChatId)]_vars

====
